---- MODULE Spec2Model ----
(***************************************************************************)
(* Model of the highfrequency data-handling functions                      *)
(* (internal_data_handling.py, data_handling.py).                          *)
(*                                                                         *)
(* A polars DataFrame is a record [cols, rows]: cols is the sequence of    *)
(* columns (name and dtype), rows the sequence of rows, each a sequence of *)
(* cells positionally aligned with cols.  Cells are never null.  Float64,  *)
(* Int64 and Datetime cells are integers (a Datetime is a number of        *)
(* minutes), String cells are strings.                                     *)
(*                                                                         *)
(* Every function returns an outcome: err = "none" and the returned frame, *)
(* or the exception raised.  Exceptions carry the class and, where one     *)
(* class is raised for several conditions, the condition of the message:   *)
(* ValueError_column is "Data needs '...' column.", ValueError_exchange is *)
(* "Exchange '...' not found in the list of exchanges".  An outcome also   *)
(* lists the steps of the function body that were entered.                 *)
(*                                                                         *)
(* The functions are called with the default column-name parameters and    *)
(* print_exchange=False.  A behaviour is one call on one input frame: df   *)
(* is the argument, last the call and its outcome.                         *)
(***************************************************************************)
EXTENDS Integers, Sequences, FiniteSets, TLC

VARIABLES df, last

vars == <<df, last>>

\* ---------------------------------------------------------------- bounds
MaxCols == 5
MaxRows == 3

\* ------------------------------------------------------------ frames
\* the sequence that a function on 1..n is, built once as a tuple
AsSeq(f) == f \o <<>>

Col(n, t) == [name |-> n, dtype |-> t]

EmptyFrame == [cols |-> <<>>, rows |-> <<>>]

columns(d) == [i \in 1..Len(d.cols) |-> d.cols[i].name]

HasColumn(d, n) == \E i \in 1..Len(d.cols) : d.cols[i].name = n

ColumnIndex(d, n) == CHOOSE i \in 1..Len(d.cols) : d.cols[i].name = n

schema(d, n) == d.cols[ColumnIndex(d, n)].dtype

Cell(d, r, n) == r[ColumnIndex(d, n)]

\* ------------------------------------------------------------ outcomes
Return(d, w, st) == [err |-> "none", df |-> d, warned |-> w, steps |-> st]

Raise(e, st) == [err |-> e, df |-> EmptyFrame, warned |-> FALSE, steps |-> st]

\* warnings.warn before the outcome
Warned(out, w) == [out EXCEPT !.warned = w]

\* ------------------------------------------------- check_column_names
\* str.lower on the column names of the model
lower(n) ==
    CASE n = "PRICE" -> "price"
      [] n = "Ask" -> "ask"
      [] n = "ASK" -> "ask"
      [] n = "SYM_ROOT" -> "sym_root"
      [] OTHER -> n

\* rename as a selection: the columns that are not renamed are left out
rename_select(d, m) ==
    LET kept == SelectSeq([i \in 1..Len(d.cols) |-> i],
                          LAMBDA i : d.cols[i].name \in DOMAIN m)
        newcols == AsSeq([k \in 1..Len(kept) |->
                      Col(m[d.cols[kept[k]].name], d.cols[kept[k]].dtype)])
        dup == \E i, j \in 1..Len(kept) :
                  i # j /\ newcols[i].name = newcols[j].name
    IN IF dup THEN Raise("DuplicateError", <<>>)
       ELSE Return([cols |-> newcols,
                    rows |-> AsSeq([r \in 1..Len(d.rows) |->
                       AsSeq([k \in 1..Len(kept) |-> d.rows[r][kept[k]]])])],
                   FALSE, <<>>)

\* DataFrame.rename: the names in DOMAIN m are replaced, position, dtype and
\* data are kept; a frame cannot hold two columns of one name
rename(d, m) ==
    LET newcols == AsSeq([i \in 1..Len(d.cols) |->
                      IF d.cols[i].name \in DOMAIN m
                      THEN Col(m[d.cols[i].name], d.cols[i].dtype)
                      ELSE d.cols[i]])
        dup == \E i, j \in 1..Len(d.cols) :
                  i # j /\ newcols[i].name = newcols[j].name
    IN IF dup THEN Raise("DuplicateError", <<>>)
       ELSE Return([cols |-> newcols, rows |-> d.rows], FALSE, <<>>)

\* an alias table in which the target of asksize is itself an alias
rename_map_chained ==
    ("ask" :> "ofr") @@ ("sym_root" :> "symbol") @@ ("bidsize" :> "bidsiz")
    @@ ("asksize" :> "ofrsize") @@ ("asksiz" :> "ofrsiz")
    @@ ("ofrsize" :> "ofrsiz") @@ ("tr_scond" :> "cond") @@ ("cr" :> "corr")
    @@ ("tr_corr" :> "corr")

rename_map ==
    ("ask" :> "ofr") @@ ("sym_root" :> "symbol") @@ ("bidsize" :> "bidsiz")
    @@ ("asksize" :> "ofrsiz") @@ ("asksiz" :> "ofrsiz")
    @@ ("ofrsize" :> "ofrsiz") @@ ("tr_scond" :> "cond") @@ ("cr" :> "corr")
    @@ ("tr_corr" :> "corr")

check_column_names(d) ==
    LET names == {d.cols[i].name : i \in 1..Len(d.cols)}
        lowered == rename(d, [c \in names |-> lower(c)])
    IN IF lowered.err # "none" THEN lowered
       ELSE LET present == {old \in DOMAIN rename_map :
                               HasColumn(lowered.df, old)}
            IN rename(lowered.df, [old \in present |-> rename_map[old]])

\* ------------------------------------------------- check_trade_data
\* trade validation that checks the type of dt before the presence of price
check_trade_data_type_first(d) ==
    IF HasColumn(d, "dt") /\ schema(d, "dt") # "Datetime"
    THEN Raise("TypeError", <<>>)
    ELSE IF ~HasColumn(d, "price") THEN Raise("KeyError", <<>>)
    ELSE IF ~HasColumn(d, "dt") THEN Raise("KeyError", <<>>)
    ELSE LET w == ~HasColumn(d, "symbol") /\ ~HasColumn(d, "sym_root") IN
         IF schema(d, "price") # "Float64" THEN Raise("TypeError", <<>>)
         ELSE IF ~HasColumn(d, "size") THEN Raise("KeyError", <<>>)
         ELSE IF schema(d, "size") \notin {"Float64", "Int64"}
              THEN Raise("TypeError", <<>>)
         ELSE Return(d, w, <<>>)

\* df_schema[name]: a KeyError when the frame has no such column
check_trade_data(d) ==
    IF ~HasColumn(d, "price") THEN Raise("KeyError", <<>>)
    ELSE IF ~HasColumn(d, "dt") THEN Raise("KeyError", <<>>)
    ELSE LET w == ~HasColumn(d, "symbol") /\ ~HasColumn(d, "sym_root") IN
         IF schema(d, "price") # "Float64"
              THEN Warned(Raise("TypeError", <<>>), w)
         ELSE IF ~HasColumn(d, "size") THEN Warned(Raise("KeyError", <<>>), w)
         ELSE IF schema(d, "size") \notin {"Float64", "Int64"}
              THEN Warned(Raise("TypeError", <<>>), w)
         ELSE IF schema(d, "dt") # "Datetime"
              THEN Warned(Raise("TypeError", <<>>), w)
         ELSE Return(d, w, <<>>)

\* ------------------------------------------------- check_quote_data
check_quote_data(d) ==
    IF ~HasColumn(d, "dt") THEN Raise("KeyError", <<>>)
    ELSE IF ~HasColumn(d, "bid") THEN Raise("KeyError", <<>>)
    ELSE IF ~HasColumn(d, "ofr") THEN Raise("KeyError", <<>>)
    ELSE LET w == ~HasColumn(d, "symbol") /\ ~HasColumn(d, "sym_root") IN
         IF schema(d, "bid") # "Float64"
              THEN Warned(Raise("TypeError", <<>>), w)
         ELSE IF schema(d, "ofr") # "Float64"
              THEN Warned(Raise("TypeError", <<>>), w)
         ELSE IF ~HasColumn(d, "bidsiz")
              THEN Warned(Raise("KeyError", <<>>), w)
         ELSE IF schema(d, "bidsiz") \notin {"Float64", "Int64"}
              THEN Warned(Raise("TypeError", <<>>), w)
         ELSE IF ~HasColumn(d, "ofrsiz")
              THEN Warned(Raise("KeyError", <<>>), w)
         ELSE IF schema(d, "ofrsiz") \notin {"Float64", "Int64"}
              THEN Warned(Raise("TypeError", <<>>), w)
         ELSE IF schema(d, "dt") # "Datetime"
              THEN Warned(Raise("TypeError", <<>>), w)
         ELSE Return(d, w, <<>>)

\* ------------------------------------------------------------ rows
\* DataFrame.filter: the rows whose entry in the boolean mask is true, in
\* frame order
filter(d, mask) ==
    LET idx == SelectSeq(AsSeq([i \in 1..Len(d.rows) |-> i]),
                         LAMBDA i : mask[i])
    IN [cols |-> d.cols, rows |-> AsSeq([k \in 1..Len(idx) |-> d.rows[idx[k]]])]


RECURSIVE SortedOrders(_, _)
\* every arrangement of the row indices S in which the keys ascend
SortedOrders(S, key) ==
    IF S = {} THEN {<<>>}
    ELSE LET least == {i \in S : \A j \in S : key[i] <= key[j]}
         IN UNION { {<<i>> \o o : o \in SortedOrders(S \ {i}, key)} :
                    i \in least }

\* DataFrame.sort(by) with the default maintain_order=False: the rows ascend
\* by the column; the order among rows of equal key is not determined
sort(d, by) ==
    LET n == Len(d.rows)
        key == [i \in 1..n |-> Cell(d, d.rows[i], by)]
    IN { [cols |-> d.cols, rows |-> AsSeq([k \in 1..n |-> d.rows[o[k]]])] :
         o \in SortedOrders(1..n, key) }

\* ------------------------------------------------- helpers.exchange_names
EXCHANGES == {"N", "Q", "P"}

exchange_column == "ex"

time_column == "dt"

volume_column == "size"

\* ------------------------------------------------- select_exchange
\* selection without the check of the code against the enumeration
select_exchange_unchecked(d, exchange) ==
    IF ~HasColumn(d, exchange_column) THEN {Raise("ValueError_column", <<>>)}
    ELSE IF ~HasColumn(d, time_column) THEN {Raise("ValueError_column", <<>>)}
    ELSE LET filtered_data ==
                 filter(d, [i \in 1..Len(d.rows) |->
                    Cell(d, d.rows[i], exchange_column) = exchange])
         IN { Return(s, FALSE, <<"filter", "sort">>) :
              s \in sort(filtered_data, time_column) }

select_exchange(d, exchange) ==
    IF ~HasColumn(d, exchange_column) THEN {Raise("ValueError_column", <<>>)}
    ELSE IF ~HasColumn(d, time_column) THEN {Raise("ValueError_column", <<>>)}
    ELSE IF exchange \notin EXCHANGES
         THEN {Raise("ValueError_exchange", <<>>)}
    ELSE LET filtered_data ==
                 filter(d, [i \in 1..Len(d.rows) |->
                    Cell(d, d.rows[i], exchange_column) = exchange])
         IN { Return(s, FALSE, <<"filter", "sort">>) :
              s \in sort(filtered_data, time_column) }

\* ------------------------------------------------- auto_select_exchange_trades
RECURSIVE group_keys(_)
\* DataFrame.group_by: one group for each distinct key among the keys of the
\* rows
group_keys(keys) ==
    IF keys = <<>> THEN <<>>
    ELSE LET front == group_keys(SubSeq(keys, 1, Len(keys) - 1))
             k == keys[Len(keys)]
         IN IF \E i \in 1..Len(front) : front[i] = k THEN front
            ELSE Append(front, k)

RECURSIVE SumSeq(_)
SumSeq(s) == IF s = <<>> THEN 0 ELSE Head(s) + SumSeq(Tail(s))

RECURSIVE MaxSeq(_)
MaxSeq(s) ==
    IF Len(s) = 1 THEN Head(s)
    ELSE LET m == MaxSeq(Tail(s)) IN IF Head(s) >= m THEN Head(s) ELSE m

RECURSIVE Flatten(_)
Flatten(ss) == IF ss = <<>> THEN <<>> ELSE Head(ss) \o Flatten(Tail(ss))

\* step 1: group by (symbol, exchange) and sum the volume
aggregated_df(t) ==
    LET key(r) == <<Cell(t, r, "symbol"), Cell(t, r, exchange_column)>>
        gs == group_keys([i \in 1..Len(t.rows) |-> key(t.rows[i])])
        sizes(g) == LET members == SelectSeq(t.rows, LAMBDA r : key(r) = g)
                    IN [i \in 1..Len(members) |->
                          Cell(t, members[i], volume_column)]
    IN AsSeq([i \in 1..Len(gs) |->
                [symbol |-> gs[i][1], ex |-> gs[i][2],
                 total_size |-> SumSeq(sizes(gs[i]))]])

\* step 2: the maximum total of each symbol
max_size_df(agg) ==
    LET gs == group_keys([i \in 1..Len(agg) |-> agg[i].symbol])
        totals(s) == LET members == SelectSeq(agg, LAMBDA a : a.symbol = s)
                     IN [i \in 1..Len(members) |-> members[i].total_size]
    IN AsSeq([i \in 1..Len(gs) |->
                [symbol |-> gs[i], max_size |-> MaxSeq(totals(gs[i]))]])

\* step 3: inner join of the totals with the maxima on symbol
joined_df(agg, mx) ==
    Flatten([i \in 1..Len(agg) |->
        LET matches == SelectSeq(mx, LAMBDA m : m.symbol = agg[i].symbol)
        IN [j \in 1..Len(matches) |->
              [symbol |-> agg[i].symbol, ex |-> agg[i].ex,
               total_size |-> agg[i].total_size,
               max_size |-> matches[j].max_size]]])

\* a maximum filter that breaks ties: of the groups of a symbol that reach
\* the maximum only the first is kept
filtered_df_first(t) ==
    LET agg == aggregated_df(t)
        j == joined_df(agg, max_size_df(agg))
        idx == SelectSeq([i \in 1..Len(j) |-> i], LAMBDA i :
                  /\ j[i].total_size = j[i].max_size
                  /\ \A k \in 1..(i - 1) :
                        ~(j[k].symbol = j[i].symbol
                          /\ j[k].total_size = j[k].max_size))
    IN AsSeq([i \in 1..Len(idx) |-> j[idx[i]]])

\* step 4: the groups whose total is the maximum of their symbol
filtered_df(t) ==
    LET agg == aggregated_df(t)
    IN SelectSeq(joined_df(agg, max_size_df(agg)),
                 LAMBDA j : j.total_size = j.max_size)

\* a join back on the symbol alone
result_df_on_symbol(t, kept) ==
    [cols |-> t.cols,
     rows |-> Flatten([i \in 1..Len(t.rows) |->
        LET matches == SelectSeq(kept, LAMBDA k :
                k.symbol = Cell(t, t.rows[i], "symbol"))
        IN [j \in 1..Len(matches) |-> t.rows[i]]])]

\* step 5: inner join of the rows with the kept (symbol, exchange) pairs
result_df(t, kept) ==
    [cols |-> t.cols,
     rows |-> Flatten([i \in 1..Len(t.rows) |->
        LET matches == SelectSeq(kept, LAMBDA k :
                /\ k.symbol = Cell(t, t.rows[i], "symbol")
                /\ k.ex = Cell(t, t.rows[i], exchange_column))
        IN [j \in 1..Len(matches) |-> t.rows[i]]])]

auto_select_exchange_trades(t_data) ==
    LET c == check_column_names(t_data) IN
    IF c.err # "none" THEN {Raise(c.err, <<"check_column_names">>)}
    ELSE LET v == check_trade_data(c.df)
             st == <<"check_column_names", "check_trade_data">> IN
    IF v.err # "none" THEN {Raise(v.err, st)}
    ELSE IF ~HasColumn(v.df, exchange_column)
         THEN {Raise("ValueError_column", st)}
    ELSE IF ~HasColumn(v.df, "symbol")
         THEN {Raise("ColumnNotFoundError", st)}
    ELSE { Return(s, v.warned, st \o <<"group_by", "join", "sort">>) :
           s \in sort(result_df(v.df, filtered_df(v.df)), time_column) }

\* ------------------------------------------------- remove_zero_prices
remove_zero_prices(d) ==
    LET c == check_column_names(d) IN
    IF c.err # "none" THEN {Raise(c.err, <<"check_column_names">>)}
    ELSE LET v == check_trade_data(c.df)
             st == <<"check_column_names", "check_trade_data">> IN
    IF v.err # "none" THEN {Raise(v.err, st)}
    ELSE { Return(s, v.warned, st \o <<"filter", "sort">>) :
           s \in sort(filter(v.df, [i \in 1..Len(v.df.rows) |->
                                 Cell(v.df, v.df.rows[i], "price") # 0]),
                      time_column) }

\* ------------------------------------------------- remove_zero_quotes
remove_zero_quotes(d) ==
    LET c == check_column_names(d) IN
    IF c.err # "none" THEN {Raise(c.err, <<"check_column_names">>)}
    ELSE LET v == check_quote_data(c.df)
             st == <<"check_column_names", "check_quote_data">> IN
    IF v.err # "none" THEN {Raise(v.err, st)}
    ELSE { Return(s, v.warned, st \o <<"filter", "sort">>) :
           s \in sort(filter(v.df, [i \in 1..Len(v.df.rows) |->
                                 /\ Cell(v.df, v.df.rows[i], "bid") # 0
                                 /\ Cell(v.df, v.df.rows[i], "ofr") # 0]),
                      time_column) }

\* ------------------------------------------------- exchange_hours_only
MinutesPerDay == 1440

\* Expr.dt.truncate('1d')
truncate_1d(t) == t - (t % MinutesPerDay)

\* pl.duration(hours=h, minutes=m)
duration(hm) == 60 * hm[1] + hm[2]

exchange_hours_only(d, market_open, market_close) ==
    IF Len(market_open) # 2 \/ Len(market_close) # 2
    THEN {Raise("ValueError_market", <<>>)}
    ELSE IF \E i \in 1..2 : market_open[i] \notin Int
         THEN {Raise("TypeError", <<>>)}
    ELSE IF \E i \in 1..2 : market_close[i] \notin Int
         THEN {Raise("TypeError", <<>>)}
    ELSE IF ~HasColumn(d, time_column)
         THEN {Raise("ColumnNotFoundError", <<"filter">>)}
    ELSE IF schema(d, time_column) # "Datetime"
         THEN {Raise("InvalidOperationError", <<"filter">>)}
    ELSE LET inside(r) ==
                 LET t == Cell(d, r, time_column) IN
                 /\ t >= truncate_1d(t) + duration(market_open)
                 /\ t <= truncate_1d(t) + duration(market_close)
         IN { Return(s, FALSE, <<"filter", "sort">>) :
              s \in sort(filter(d, [i \in 1..Len(d.rows) |->
                                      inside(d.rows[i])]),
                         time_column) }

\* ------------------------------------------------- remove_negative_spread
remove_negative_spread(q_data) ==
    LET c == check_column_names(q_data) IN
    IF c.err # "none" THEN {Raise(c.err, <<"check_column_names">>)}
    ELSE LET v == check_quote_data(c.df)
             st == <<"check_column_names", "check_quote_data">> IN
    IF v.err # "none" THEN {Raise(v.err, st)}
    ELSE { Return(s, v.warned, st \o <<"filter", "sort">>) :
           s \in sort(filter(v.df, [i \in 1..Len(v.df.rows) |->
                                 Cell(v.df, v.df.rows[i], "ofr")
                                    > Cell(v.df, v.df.rows[i], "bid")]),
                      time_column) }

\* ------------------------------------------------------------ inputs
\* the columns an input frame is drawn from, in frame order
Universe ==
    << Col("symbol", "String"), Col("sym_root", "String"),
       Col("ex", "String"),
       Col("price", "Float64"), Col("price", "Int64"),
       Col("PRICE", "Float64"),
       Col("size", "Int64"), Col("size", "String"),
       Col("dt", "Datetime"), Col("dt", "Int64"),
       Col("bid", "Float64"),
       Col("ofr", "Float64"), Col("ofr", "Int64"),
       Col("ask", "Float64"), Col("Ask", "Float64"),
       Col("bidsiz", "Int64"),
       Col("ofrsiz", "Int64"), Col("asksize", "Int64"),
       Col("foo", "String") >>

RECURSIVE SetToSeq(_)
\* the members of a set of integers in increasing order
SetToSeq(S) ==
    IF S = {} THEN <<>>
    ELSE LET m == CHOOSE x \in S : \A y \in S : x <= y
         IN <<m>> \o SetToSeq(S \ {m})

\* one row whose cells identify the column they were created in: the name of
\* a String column, the number of columns before a numeric one; the exchange
\* column holds a vendor code outside the enumeration
RowOf(cs) ==
    AsSeq([i \in 1..Len(cs) |->
             IF cs[i].name = exchange_column THEN "ZZ"
             ELSE IF cs[i].dtype = "String" THEN cs[i].name
             ELSE i - 1])

SchemaFrames ==
    { LET idx == SetToSeq(S)
          cs == AsSeq([i \in 1..Len(idx) |-> Universe[idx[i]]])
      IN [cols |-> cs, rows |-> IF cs = <<>> THEN <<>> ELSE <<RowOf(cs)>>] :
      S \in { T \in SUBSET (1..Len(Universe)) :
                /\ Cardinality(T) <= MaxCols
                /\ \A i, j \in T : i # j =>
                      Universe[i].name # Universe[j].name } }

NoArg == [exchange |-> "", market_open |-> <<>>, market_close |-> <<>>]

\* the record of a call on the frame df
Call(op, arg, out) == [op |-> op, arg |-> arg, out |-> out]

NoCall == Call("none", NoArg, Raise("none", <<>>))

\* a behaviour is one call on one input frame: the functions are pure and
\* keep nothing between calls
Idle == last = NoCall

\* frames of the canonical trade schema with up to MaxRows rows
TradeCols ==
    << Col("symbol", "String"), Col("ex", "String"), Col("size", "Int64"),
       Col("dt", "Datetime"), Col("price", "Float64") >>

RowExchanges == {"N", "Q"}

Sizes == {1, 2}

\* 09:00 and 10:00 of the first day
Times == {540, 600}

\* symbol AAA trades in both sizes, symbol BBB in single lots
TradeRows ==
    { <<"AAA", e, z, t, 1>> : e \in RowExchanges, z \in Sizes, t \in Times }
    \cup { <<"BBB", e, 1, t, 1>> : e \in RowExchanges, t \in Times }

TradeFrames ==
    { [cols |-> TradeCols, rows |-> rs] :
      rs \in UNION { [1..n -> TradeRows] : n \in 0..MaxRows } }

ExchangeArgs == {"N", "Q", "ZZ"}

OpenArgs == {<<9, 30>>, <<9>>}

CloseArgs == {<<16, 0>>, <<9, 45>>}

Init ==
    /\ df \in SchemaFrames
    /\ last = NoCall

InitRows ==
    /\ df \in TradeFrames
    /\ last = NoCall

CheckColumnNames ==
    LET out == check_column_names(df) IN
    /\ Idle
    /\ last' = Call("check_column_names", NoArg, out)
    /\ df' = df

CheckTradeData ==
    LET out == check_trade_data(df) IN
    /\ Idle
    /\ last' = Call("check_trade_data", NoArg, out)
    /\ df' = df

CheckQuoteData ==
    LET out == check_quote_data(df) IN
    /\ Idle
    /\ last' = Call("check_quote_data", NoArg, out)
    /\ df' = df

SelectExchange ==
    /\ Idle
    /\ \E exchange \in ExchangeArgs : \E out \in select_exchange(df, exchange) :
           /\ last' = Call("select_exchange",
                           [NoArg EXCEPT !.exchange = exchange], out)
           /\ df' = df

AutoSelectExchangeTrades ==
    /\ Idle
    /\ \E out \in auto_select_exchange_trades(df) :
           /\ last' = Call("auto_select_exchange_trades", NoArg, out)
           /\ df' = df

RemoveZeroPrices ==
    /\ Idle
    /\ \E out \in remove_zero_prices(df) :
           /\ last' = Call("remove_zero_prices", NoArg, out)
           /\ df' = df

RemoveZeroQuotes ==
    /\ Idle
    /\ \E out \in remove_zero_quotes(df) :
           /\ last' = Call("remove_zero_quotes", NoArg, out)
           /\ df' = df

ExchangeHoursOnly ==
    /\ Idle
    /\ \E mo \in OpenArgs, mc \in CloseArgs :
         \E out \in exchange_hours_only(df, mo, mc) :
           /\ last' = Call("exchange_hours_only",
                           [NoArg EXCEPT !.market_open = mo,
                                         !.market_close = mc], out)
           /\ df' = df

RemoveNegativeSpread ==
    /\ Idle
    /\ \E out \in remove_negative_spread(df) :
           /\ last' = Call("remove_negative_spread", NoArg, out)
           /\ df' = df

Next ==
    \/ CheckColumnNames
    \/ CheckTradeData
    \/ CheckQuoteData
    \/ SelectExchange
    \/ AutoSelectExchangeTrades
    \/ RemoveZeroPrices
    \/ RemoveZeroQuotes
    \/ ExchangeHoursOnly
    \/ RemoveNegativeSpread

Spec == Init /\ [][Next]_vars

SpecRows == InitRows /\ [][Next]_vars

\* ------------------------------------------------------------ properties
Ok == last.out.err = "none"

\* the frame a function works on after its call of check_column_names
Canon == check_column_names(df).df

Count(rows, r) == Len(SelectSeq(rows, LAMBDA x : x = r))

SameRows(a, b) ==
    \A r \in {a[i] : i \in 1..Len(a)} \cup {b[i] : i \in 1..Len(b)} :
        Count(a, r) = Count(b, r)

\* the summed size of the rows of symbol s on exchange e
Total(d, s, e) ==
    LET members == SelectSeq(d.rows, LAMBDA r :
                       /\ Cell(d, r, "symbol") = s
                       /\ Cell(d, r, exchange_column) = e)
    IN SumSeq([i \in 1..Len(members) |-> Cell(d, members[i], volume_column)])

ExchangesOf(d, s) ==
    {Cell(d, d.rows[i], exchange_column) :
        i \in {j \in 1..Len(d.rows) : Cell(d, d.rows[j], "symbol") = s}}

HasMaxTotal(d, r) ==
    LET s == Cell(d, r, "symbol")
        e == Cell(d, r, exchange_column)
    IN \A e2 \in ExchangesOf(d, s) : Total(d, s, e) >= Total(d, s, e2)

AutoSelected == last.op = "auto_select_exchange_trades" /\ Ok

\* C1: auto-selection returns exactly the input rows whose (symbol,
\* exchange) total size is the maximum total of their symbol: all the
\* exchanges that tie for the maximum are kept, no smaller one is
C1_MaxVolumeRows ==
    AutoSelected =>
        SameRows(last.out.df.rows,
                 SelectSeq(Canon.rows, LAMBDA r : HasMaxTotal(Canon, r)))

\* auto-selection kept the rows of two exchanges that tie for a symbol
C1_Witness ==
    /\ AutoSelected
    /\ \E i, j \in 1..Len(last.out.df.rows) :
          LET a == last.out.df.rows[i]
              b == last.out.df.rows[j]
          IN /\ Cell(Canon, a, "symbol") = Cell(Canon, b, "symbol")
             /\ Cell(Canon, a, exchange_column)
                   # Cell(Canon, b, exchange_column)

\* C10: the (symbol, exchange) pairs kept after the maximum filter are
\* pairwise distinct and no input row occurs more often in the output of
\* auto-selection than in the input
C10_NoDuplicateRows ==
    AutoSelected =>
        /\ LET kept == filtered_df(Canon)
           IN \A i, j \in 1..Len(kept) :
                 (kept[i].symbol = kept[j].symbol /\ kept[i].ex = kept[j].ex)
                    => i = j
        /\ \A i \in 1..Len(last.out.df.rows) :
              Count(last.out.df.rows, last.out.df.rows[i])
                 <= Count(df.rows, last.out.df.rows[i])

\* auto-selection kept three rows of one symbol from two tied exchanges
C10_Witness ==
    /\ AutoSelected
    /\ Len(last.out.df.rows) = 3
    /\ \A i \in 1..3 : Cell(Canon, last.out.df.rows[i], "symbol") = "AAA"
    /\ {Cell(Canon, last.out.df.rows[i], exchange_column) : i \in 1..3}
          = {"N", "Q"}

RECURSIVE StableOrder(_, _)
\* the arrangement of the row indices S in which the keys ascend and equal
\* keys keep their order
StableOrder(S, key) ==
    IF S = {} THEN <<>>
    ELSE LET i == CHOOSE x \in S : \A y \in S :
                      key[x] < key[y] \/ (key[x] = key[y] /\ x <= y)
         IN <<i>> \o StableOrder(S \ {i}, key)

StableSorted(d, by) ==
    LET n == Len(d.rows)
        o == StableOrder(1..n, [i \in 1..n |-> Cell(d, d.rows[i], by)])
    IN AsSeq([k \in 1..n |-> d.rows[o[k]]])

\* C8: a successful named-exchange selection returns the input rows of the
\* target exchange, each once, ascending by timestamp, rows of equal
\* timestamp in their input order
C8_StableSelection ==
    (last.op = "select_exchange" /\ Ok) =>
        last.out.df.rows =
            StableSorted(filter(df, [i \in 1..Len(df.rows) |->
                             Cell(df, df.rows[i], exchange_column)
                                = last.arg.exchange]),
                         time_column)

\* C2: named-exchange selection with a code outside the enumeration fails
\* with the invalid-exchange error on every input frame
C2_AlwaysInvalidExchange ==
    (last.op = "select_exchange" /\ last.arg.exchange \notin EXCHANGES)
        => last.out.err = "ValueError_exchange"

\* C2 as amended: named-exchange selection with a code outside the
\* enumeration fails with the invalid-exchange error on every input frame
\* that has the exchange column and the time column, whether or not the
\* exchange column holds the code
C2_InvalidExchangeWithColumns ==
    ( /\ last.op = "select_exchange"
      /\ last.arg.exchange \notin EXCHANGES
      /\ HasColumn(df, exchange_column)
      /\ HasColumn(df, time_column) )
        => last.out.err = "ValueError_exchange"

\* a code outside the enumeration was selected on a frame whose exchange
\* column holds it
C2_Witness ==
    /\ last.op = "select_exchange"
    /\ last.arg.exchange \notin EXCHANGES
    /\ HasColumn(df, exchange_column)
    /\ HasColumn(df, time_column)
    /\ \E i \in 1..Len(df.rows) :
          Cell(df, df.rows[i], exchange_column) = last.arg.exchange
    /\ last.out.err = "ValueError_exchange"

Typed(d, n, ts) == HasColumn(d, n) /\ schema(d, n) \in ts

OptionalTyped(d, n, ts) == HasColumn(d, n) => schema(d, n) \in ts

\* C3: the size columns are type-checked only when present: a frame whose
\* required columns are present and correctly typed, and whose size columns
\* are absent or float-or-integer, passes validation and is returned
C3_OptionalSizes ==
    /\ ( /\ last.op = "check_trade_data"
         /\ Typed(df, "price", {"Float64"})
         /\ Typed(df, "dt", {"Datetime"})
         /\ OptionalTyped(df, "size", {"Float64", "Int64"}) )
          => (Ok /\ last.out.df = df)
    /\ ( /\ last.op = "check_quote_data"
         /\ Typed(df, "dt", {"Datetime"})
         /\ Typed(df, "bid", {"Float64"})
         /\ Typed(df, "ofr", {"Float64"})
         /\ OptionalTyped(df, "bidsiz", {"Float64", "Int64"})
         /\ OptionalTyped(df, "ofrsiz", {"Float64", "Int64"}) )
          => (Ok /\ last.out.df = df)

FilterOps ==
    {"remove_zero_prices", "remove_zero_quotes", "exchange_hours_only",
     "remove_negative_spread"}

Validated(d) ==
    LET c == check_column_names(d)
    IN /\ c.err = "none"
       /\ \/ check_trade_data(c.df).err = "none"
          \/ check_quote_data(c.df).err = "none"

\* C4: a simple predicate filter that applied its row predicate and returned
\* did so after check_column_names and the schema validation, in this order,
\* and both succeed on its input
C4_FilterAfterValidation ==
    (last.op \in FilterOps /\ Ok)
    => /\ Len(last.out.steps) >= 3
       /\ last.out.steps[1] = "check_column_names"
       /\ last.out.steps[2] \in {"check_trade_data", "check_quote_data"}
       /\ last.out.steps[3] = "filter"
       /\ Validated(df)

\* C5: check_column_names raises on no input frame
C5_NeverRaises == last.op = "check_column_names" => Ok

Canonicalized == last.op = "check_column_names" /\ Ok

\* C6: canonicalization is idempotent: a second run on the returned frame
\* returns that frame again; no canonical target is an alias key and the
\* returned frame holds no name a second run would change
C6_Idempotent ==
    Canonicalized =>
        /\ check_column_names(last.out.df).err = "none"
        /\ check_column_names(last.out.df).df = last.out.df
        /\ \A i \in 1..Len(last.out.df.cols) :
              /\ last.out.df.cols[i].name \notin DOMAIN rename_map
              /\ lower(last.out.df.cols[i].name) = last.out.df.cols[i].name
        /\ \A k \in DOMAIN rename_map : rename_map[k] \notin DOMAIN rename_map

\* canonicalization lowered a name and renamed an alias
C6_Witness ==
    /\ Canonicalized
    /\ \E i \in 1..Len(df.cols) : lower(df.cols[i].name) # df.cols[i].name
    /\ \E i \in 1..Len(df.cols) : df.cols[i].name \in DOMAIN rename_map

MissingRequired(d, ns) == \E n \in ns : ~HasColumn(d, n)

\* C7: validation checks presence before type: when a required column is
\* absent the outcome is the missing-column error, whatever the types of the
\* columns present
C7_PresenceBeforeType ==
    /\ (last.op = "check_trade_data"
           /\ MissingRequired(df, {"price", "dt"}))
          => last.out.err = "KeyError"
    /\ (last.op = "check_quote_data"
           /\ MissingRequired(df, {"dt", "bid", "ofr"}))
          => last.out.err = "KeyError"

\* trade validation of a frame without price whose dt has a wrong type
C7_Witness ==
    /\ last.op = "check_trade_data"
    /\ ~HasColumn(df, "price")
    /\ HasColumn(df, "dt") /\ schema(df, "dt") # "Datetime"
    /\ last.out.err = "KeyError"

\* C9: canonicalization only renames: the returned frame has the columns of
\* the input in the same positions with the same dtypes and row data, and a
\* column whose lowercased name is no alias key has its lowercased name
C9_OnlyRenames ==
    Canonicalized =>
        /\ Len(last.out.df.cols) = Len(df.cols)
        /\ last.out.df.rows = df.rows
        /\ \A i \in 1..Len(df.cols) :
              /\ last.out.df.cols[i].dtype = df.cols[i].dtype
              /\ lower(df.cols[i].name) \notin DOMAIN rename_map
                    => last.out.df.cols[i].name = lower(df.cols[i].name)

\* canonicalization renamed an alias next to an unrecognized column
C9_Witness ==
    /\ Canonicalized
    /\ HasColumn(df, "foo") /\ HasColumn(last.out.df, "foo")
    /\ \E i \in 1..Len(df.cols) :
          /\ df.cols[i].name \in DOMAIN rename_map
          /\ last.out.df.cols[i].name = rename_map[df.cols[i].name]

====
